---- MODULE Spec2Model ----
(***************************************************************************)
(* TeamBattleGame (client/src/pages/TeamBattleGame.tsx): the view's local  *)
(* state, the handleMessage switch that maps each inbound socket event to  *)
(* state updates, React's commit of a render with its passive effects, and *)
(* the three user handlers (handleMemberSelect, handleCaptainSubmit, the   *)
(* FeedbackModal's onClose), preceded by the mount effect that guards on   *)
(* the signed-in user and the session id of the URL.  TeamDisplay, the     *)
(* roster component, is a function of its props and has a specification of *)
(* its own.                                                                *)
(*                                                                         *)
(* useState updaters are applied in call order, so a state variable holds  *)
(* the value its queued updates produce.  What lags behind is what React   *)
(* writes in passive effects after a commit: gameStateRef.current and the  *)
(* setShowRoundFeedback(true) of the effect on lastRoundCorrect.  Whether  *)
(* a commit happens between two socket messages is up to the scheduler, so *)
(* Render is an action of its own.                                         *)
(***************************************************************************)
EXTENDS Integers, Sequences, FiniteSets, TLC

VARIABLES
  user,                  \* useAuth().user: None, or Some(user.id)
  search,                \* the query parameters of window.location.search
  location,              \* what setLocation was called with, Null if it was not
  socket,                \* setupGameSocket(userId): None until it is called
  requested,             \* history: the get_game_state the mount effect sent
  props,                 \* TeamDisplay: the props of its last render, None before it
  readyShown,            \* TeamDisplay: whether that render has the Ready button
  stage,                 \* "mounting" after the first render, then "redirected" or
                         \* "listening" (handleMessage registered); "crashed" once a
                         \* render threw
  gameState,             \* useState<GameState>
  gameStateRef,          \* gameStateRef.current
  selectedAnswer,
  hasSubmitted,
  teamAnswer,
  memberAnswers,
  connected,
  suggestions,
  waitingForResults,
  correctAnswerId,
  showRoundFeedback,
  lastRoundCorrect,
  depLastRoundCorrect,   \* lastRoundCorrect as of the last commit (the effect's dependency)
  renderThrows,          \* a queued setGameState updater that throws when React runs it
  hiddenByFinish,        \* history: a finished/ended event arrived since the effect last fired
  lastEvent,             \* history: the event the last handler run received
  emitted,               \* what the last step passed to sendGameEvent
  nEvents                \* history: events handled so far

local == <<selectedAnswer, hasSubmitted, teamAnswer, memberAnswers, connected,
           suggestions, waitingForResults, correctAnswerId, showRoundFeedback,
           lastRoundCorrect>>
react == <<stage, gameStateRef, depLastRoundCorrect, renderThrows, hiddenByFinish>>
mount == <<user, search, location, socket, requested>>
display == <<props, readyShown>>
vars == <<gameState, local, react, mount, display, lastEvent, emitted, nEvents>>

----------------------------------------------------------------------------
(* Bounds *)

\* Events (socket messages and user actions) handled in one run.
MaxEvents == 3

----------------------------------------------------------------------------
(* Values *)

\* null and undefined of an id-valued (string) field.
Null == "null"
\* null and undefined of any other field: an optional value is None or Some(v).
None == <<>>
Some(v) == <<v>>
Val(o) == o[1]

\* user.id of the authenticated user (useAuth).
Me == 1
\* user.username, and the username the server sends with a userId.
Username(uid) == IF uid = 1 THEN "u1" ELSE IF uid = 2 THEN "u2" ELSE "u3"

\* timeRemaining when the question event carries no (or a zero) timeLimit.
DefaultTimeLimit == 15

\* A Team, reduced to the fields the handlers read.
Team(id, captainId, members, score) ==
  [id |-> id, captainId |-> captainId, members |-> members, score |-> score]

\* Array.prototype.find, given the indices `hits` of the elements that satisfy the
\* callback: the first of them, or undefined.
Find(seq, hits) ==
  IF hits = {} THEN None
  ELSE Some(seq[CHOOSE i \in hits : \A j \in hits : i <= j])

\* team.members.some(member => member.userId === user?.id)
HasMember(team, uid) == \E i \in 1..Len(team.members) : team.members[i] = uid

\* teams.find(team => team.members.some(member => member.userId === user?.id))
FindUserTeam(teams) ==
  Find(teams, {i \in 1..Len(teams) : HasMember(teams[i], Me)})

\* teams.find(team => team.id !== id)
FindOtherTeam(teams, id) ==
  Find(teams, {i \in 1..Len(teams) : teams[i].id # id})

\* list.find(entry => entry.teamId === id), for teamResults and leaderboard
FindByTeamId(list, id) ==
  Find(list, {i \in 1..Len(list) : list[i].teamId = id})

\* The id of an optional team: playerTeam?.id
IdOf(optTeam) == IF optTeam = None THEN Null ELSE Val(optTeam).id

InitialGameState ==
  [phase |-> "waiting", currentQuestion |-> Null, questionNumber |-> None,
   totalQuestions |-> None, timeRemaining |-> None, teams |-> None,
   playerTeam |-> None, opposingTeam |-> None, finalScore |-> None,
   correct |-> None, incorrect |-> None]

NoEvent == [type |-> "none"]

\* The query strings the page is opened with: none of the two parameters, an empty
\* `session` next to a gameSessionId, `session` alone, gameSessionId alone.
SearchParams ==
  {[session |-> Null, gameSessionId |-> Null],
   [session |-> "", gameSessionId |-> "s2"],
   [session |-> "s1", gameSessionId |-> Null],
   [session |-> Null, gameSessionId |-> "s2"]}

\* params.get('session') ?? params.get('gameSessionId')
gameSessionId == IF search.session # Null THEN search.session ELSE search.gameSessionId

\* The component after its first render, before the effects of that render ran.
Init ==
  /\ user \in {None, Some(Me)}
  /\ search \in SearchParams
  /\ location = Null
  /\ socket = None
  /\ requested = NoEvent
  /\ props = None
  /\ readyShown = None
  /\ stage = "mounting"
  /\ gameState = InitialGameState
  /\ gameStateRef = InitialGameState
  /\ selectedAnswer = Null
  /\ hasSubmitted = FALSE
  /\ teamAnswer = Null
  /\ memberAnswers = [u \in {} |-> Null]
  /\ connected = FALSE
  /\ suggestions = [a \in {} |-> <<>>]
  /\ waitingForResults = FALSE
  /\ correctAnswerId = Null
  /\ showRoundFeedback = FALSE
  /\ lastRoundCorrect = None
  /\ depLastRoundCorrect = None
  /\ renderThrows = FALSE
  /\ hiddenByFinish = FALSE
  /\ lastEvent = NoEvent
  /\ emitted = NoEvent
  /\ nEvents = 0

----------------------------------------------------------------------------
(* What the server sends.  Every payload set is a small sample of the      *)
(* event's JSON shapes: well-formed ones, ones with optional fields left   *)
(* out, and ones that are malformed for the type.                          *)

AnswerIds == {"a1", "a2"}

\* !x of an id-valued field: undefined, null and "" are falsy.
Falsy(id) == id \in {Null, ""}

T1c == Team("t1", 1, <<1, 2>>, 1)   \* the user's team, the user its captain
T1m == Team("t1", 2, <<2, 1>>, 1)   \* the user's team, user 2 its captain
T1x == Team("t1", 2, <<2>>, 1)      \* team t1 without the user
T2 == Team("t2", 3, <<3>>, 1)

Rosters == {<<T1c, T2>>, <<T2, T1m>>, <<T1x, T2>>, <<T1c>>}

QuestionMsgs ==
  {[type |-> "team_battle_question", question |-> "q1", questionNumber |-> Some(2),
    totalQuestions |-> Some(5), timeLimit |-> Some(15)],
   [type |-> "team_battle_question", question |-> "q2", questionNumber |-> Some(3),
    totalQuestions |-> Some(5), timeLimit |-> None]}

SubmittedMsgs ==
  {[type |-> "team_answer_submitted", userId |-> u, username |-> Username(u),
    answerId |-> a] : u \in {1, 2}, a \in {"a1"}}
  \cup {[type |-> "team_answer_submitted", userId |-> 2, username |-> Username(2),
         answerId |-> "a2"]}

OptionMsg(teamId, answerId, userId) ==
  [type |-> "team_option_selected", teamId |-> teamId, answerId |-> answerId,
   userId |-> userId, username |-> Username(userId)]

OptionMsgs ==
  {OptionMsg("t1", a, u) : a \in AnswerIds, u \in {1, 2}}
  \cup {OptionMsg(Null, "a1", 1), OptionMsg("t1", Null, 1), OptionMsg("t1", "a1", 0)}

\* finalAnswer is the event's finalAnswer.answerId; hasFinalAnswer = FALSE is an
\* event without the finalAnswer object.
FinalizedMsgs ==
  {[type |-> "team_answer_finalized", hasFinalAnswer |-> TRUE, answerId |-> a] :
     a \in AnswerIds}
  \cup {[type |-> "team_answer_finalized", hasFinalAnswer |-> FALSE, answerId |-> Null]}

Result(teamId, correct) == [teamId |-> teamId, correct |-> correct]
Entry(teamId, score) == [teamId |-> teamId, score |-> score]

\* correctAnswer: None (no correctAnswer object) or Some(id).  teamResults and
\* leaderboard: None or Some(list); shape says which of them is present but not a list.
ResultsMsg(correctAnswer, teamResults, leaderboard, shape) ==
  [type |-> "team_battle_question_results", correctAnswer |-> correctAnswer,
   teamResults |-> teamResults, leaderboard |-> leaderboard, shape |-> shape]

ResultsMsgs ==
  {ResultsMsg(Some("a1"), Some(<<Result("t1", TRUE), Result("t2", FALSE)>>),
              Some(<<Entry("t1", 2), Entry("t2", 1)>>), "ok"),
   ResultsMsg(Some("a2"), Some(<<Result("t2", TRUE), Result("t1", FALSE)>>),
              Some(<<Entry("t2", 2)>>), "ok"),
   ResultsMsg(Some("a1"), Some(<<Result("t2", TRUE)>>), None, "ok"),
   ResultsMsg(Some(""), Some(<<Result("t1", TRUE)>>), None, "ok"),
   ResultsMsg(None, None, None, "ok"),
   ResultsMsg(Some("a1"), None, None, "teamResults_not_array"),
   ResultsMsg(Some("a1"), Some(<<Result("t1", TRUE)>>), None, "leaderboard_not_array")}

YourTeam(score, correctAnswers, incorrectAnswers) ==
  [score |-> score, correctAnswers |-> correctAnswers,
   incorrectAnswers |-> incorrectAnswers]

FinishedPayloads ==
  {[finalScores |-> Some(<<Team("t1", 1, <<1, 2>>, 2), T2>>),
    yourTeam |-> Some(YourTeam(Some(2), Some(1), Some(1)))],
   [finalScores |-> Some(<<T2, T1m>>), yourTeam |-> Some(YourTeam(None, None, None))],
   [finalScores |-> None, yourTeam |-> None]}

FinishedMsgs ==
  {[type |-> t, finalScores |-> p.finalScores, yourTeam |-> p.yourTeam] :
     t \in {"team_battle_finished", "team_battle_ended"}, p \in FinishedPayloads}

\* teams: None (no teams field) or Some(roster); shape "teams_not_array" is a teams
\* field that is an object, not a list.
TeamsMsgs ==
  {[type |-> t, teams |-> Some(r), shape |-> "ok"] :
     t \in {"teams_updated", "team_update"}, r \in Rosters}
  \cup {[type |-> t, teams |-> None, shape |-> "ok"] :
          t \in {"teams_updated", "team_update"}}
  \cup {[type |-> "teams_updated", teams |-> None, shape |-> "teams_not_array"]}

\* game_state_update: gameState is the object spread into the state (an object with
\* no fields when the event has none), playerTeam and opposingTeam are optional.
NoFields == [f \in {} |-> Null]
GameStateMsgs ==
  <<[type |-> "game_state_update", gameState |-> NoFields,
     playerTeam |-> Some(T1c), opposingTeam |-> Some(T2)],
    [type |-> "game_state_update", gameState |-> [phase |-> "playing"],
     playerTeam |-> None, opposingTeam |-> None],
    [type |-> "game_state_update",
     gameState |-> [phase |-> "question", currentQuestion |-> "q1",
                    teams |-> Some(<<T2, T1m>>)],
     playerTeam |-> Some(T1m), opposingTeam |-> Some(T2)]>>

\* Events whose case only logs or shows a toast.
NotificationTypes == {"authenticated", "team_battle_round_complete", "error"}

----------------------------------------------------------------------------
(* The mount effect *)

\* Mutant: the guard as `if (!user)` alone.
Mount_NoSessionCheck ==
  /\ stage = "mounting"
  /\ IF user = None
     THEN /\ stage' = "redirected"
          /\ location' = "/"
          /\ emitted' = NoEvent
          /\ UNCHANGED <<socket, requested>>
     ELSE /\ stage' = "listening"
          /\ socket' = Some(Val(user))
          /\ emitted' = [type |-> "get_game_state", gameSessionId |-> gameSessionId,
                         userId |-> Val(user)]
          /\ requested' = emitted'
          /\ UNCHANGED location
  /\ UNCHANGED <<gameState, local, gameStateRef, depLastRoundCorrect, renderThrows,
                 hiddenByFinish, user, search, display, lastEvent, nEvents>>

\* useEffect(..., [user, gameSessionId]) after the first render: the guard, then
\* setupGameSocket, sendGameEvent(get_game_state) and addEventListener.
Mount ==
  /\ stage = "mounting"
  /\ IF user = None \/ gameSessionId \in {Null, ""}
     THEN /\ stage' = "redirected"
          /\ location' = "/"
          /\ emitted' = NoEvent
          /\ UNCHANGED <<socket, requested>>
     ELSE /\ stage' = "listening"
          /\ socket' = Some(Val(user))
          /\ emitted' = [type |-> "get_game_state", gameSessionId |-> gameSessionId,
                         userId |-> Val(user)]
          /\ requested' = emitted'
          /\ UNCHANGED location
  /\ UNCHANGED <<gameState, local, gameStateRef, depLastRoundCorrect, renderThrows,
                 hiddenByFinish, user, search, display, lastEvent, nEvents>>

----------------------------------------------------------------------------
(* handleMessage *)

\* One run of handleMessage on `data`: the listener is registered, and nothing in
\* the handler touches what React writes at a commit.
Received(data) ==
  /\ stage = "listening"
  /\ nEvents < MaxEvents
  /\ lastEvent' = data
  /\ emitted' = NoEvent
  /\ nEvents' = nEvents + 1
  /\ UNCHANGED <<stage, gameStateRef, depLastRoundCorrect, mount, display>>

\* JSON.parse throws: the catch logs, no case runs.
unparseable ==
  /\ Received([type |-> "unparseable"])
  /\ UNCHANGED <<gameState, local, renderThrows, hiddenByFinish>>

connection_established ==
  /\ Received([type |-> "connection_established"])
  /\ connected' = TRUE
  /\ UNCHANGED <<gameState, selectedAnswer, hasSubmitted, teamAnswer, memberAnswers,
                 suggestions, waitingForResults, correctAnswerId, showRoundFeedback,
                 lastRoundCorrect, renderThrows, hiddenByFinish>>

\* 'authenticated', 'team_battle_round_complete', 'error': a log line or a toast.
notification(type) ==
  /\ Received([type |-> type])
  /\ UNCHANGED <<gameState, local, renderThrows, hiddenByFinish>>

\* {...prev, ...data.gameState, playerTeam: data.playerTeam, opposingTeam: data.opposingTeam}
updateGameState(prev, data) ==
  [f \in DOMAIN prev |->
     IF f = "playerTeam" THEN data.playerTeam
     ELSE IF f = "opposingTeam" THEN data.opposingTeam
     ELSE IF f \in DOMAIN data.gameState THEN data.gameState[f]
     ELSE prev[f]]

game_state_update(data) ==
  /\ Received(data)
  /\ gameState' = updateGameState(gameState, data)
  /\ UNCHANGED <<local, renderThrows, hiddenByFinish>>

team_battle_started ==
  /\ Received([type |-> "team_battle_started"])
  /\ gameState' = [gameState EXCEPT !.phase = "playing"]
  /\ UNCHANGED <<local, renderThrows, hiddenByFinish>>

\* data.timeLimit || 15
TimeLimitOr15(timeLimit) ==
  IF timeLimit = None \/ Val(timeLimit) = 0 THEN DefaultTimeLimit ELSE Val(timeLimit)

QuestionGameState(prev, data) ==
  [prev EXCEPT !.phase = "question",
               !.currentQuestion = data.question,
               !.questionNumber = data.questionNumber,
               !.totalQuestions = data.totalQuestions,
               !.timeRemaining = Some(TimeLimitOr15(data.timeLimit))]

\* Mutant: the case without setTeamAnswer(null).
team_battle_question_KeepsTeamAnswer(data) ==
  /\ Received(data)
  /\ gameState' = QuestionGameState(gameState, data)
  /\ selectedAnswer' = Null
  /\ hasSubmitted' = FALSE
  /\ memberAnswers' = [u \in {} |-> Null]
  /\ suggestions' = [a \in {} |-> <<>>]
  /\ waitingForResults' = FALSE
  /\ correctAnswerId' = Null
  /\ lastRoundCorrect' = None
  /\ UNCHANGED <<teamAnswer, connected, showRoundFeedback, renderThrows, hiddenByFinish>>

\* Mutant: the case with setShowRoundFeedback(false) added.
team_battle_question_ClearsFeedback(data) ==
  /\ Received(data)
  /\ gameState' = QuestionGameState(gameState, data)
  /\ selectedAnswer' = Null
  /\ hasSubmitted' = FALSE
  /\ teamAnswer' = Null
  /\ memberAnswers' = [u \in {} |-> Null]
  /\ suggestions' = [a \in {} |-> <<>>]
  /\ waitingForResults' = FALSE
  /\ correctAnswerId' = Null
  /\ lastRoundCorrect' = None
  /\ showRoundFeedback' = FALSE
  /\ UNCHANGED <<connected, renderThrows, hiddenByFinish>>

team_battle_question(data) ==
  /\ Received(data)
  /\ gameState' = QuestionGameState(gameState, data)
  /\ selectedAnswer' = Null
  /\ hasSubmitted' = FALSE
  /\ teamAnswer' = Null
  /\ memberAnswers' = [u \in {} |-> Null]
  /\ suggestions' = [a \in {} |-> <<>>]
  /\ waitingForResults' = FALSE
  /\ correctAnswerId' = Null
  /\ lastRoundCorrect' = None
  /\ UNCHANGED <<connected, showRoundFeedback, renderThrows, hiddenByFinish>>

\* {...prev, [data.username]: data.answerId}
WithMemberAnswer(prev, data) ==
  [u \in DOMAIN prev \cup {data.username} |->
     IF u = data.username THEN data.answerId ELSE prev[u]]

team_answer_submitted(data) ==
  /\ Received(data)
  /\ memberAnswers' = IF data.userId # Me THEN WithMemberAnswer(memberAnswers, data)
                      ELSE memberAnswers
  /\ UNCHANGED <<gameState, selectedAnswer, hasSubmitted, teamAnswer, connected,
                 suggestions, waitingForResults, correctAnswerId, showRoundFeedback,
                 lastRoundCorrect, renderThrows, hiddenByFinish>>

\* The forEach of the setSuggestions updater: the user's entries filtered out of
\* every answer's list, and an answer whose list becomes empty deleted.
RemoveSuggestion(prev, userId) ==
  LET filtered == [a \in DOMAIN prev |->
                     SelectSeq(prev[a], LAMBDA s : s.userId # userId)]
  IN [a \in {b \in DOMAIN prev : filtered[b] # <<>>} |-> filtered[a]]

\* Mutant: the updater without the removal of the user's previous suggestion.
SuggestionsUpdater_NoRemoval(prev, data) ==
  LET list == IF data.answerId \in DOMAIN prev THEN prev[data.answerId] ELSE <<>>
  IN [a \in DOMAIN prev \cup {data.answerId} |->
        IF a = data.answerId
        THEN Append(list, [userId |-> data.userId, username |-> data.username])
        ELSE prev[a]]

\* Mutant: the updater with next[data.answerId] = [entry] in place of the push.
SuggestionsUpdater_ReplacesList(prev, data) ==
  LET next == RemoveSuggestion(prev, data.userId)
  IN [a \in DOMAIN next \cup {data.answerId} |->
        IF a = data.answerId
        THEN <<[userId |-> data.userId, username |-> data.username]>>
        ELSE next[a]]

\* The setSuggestions updater.
SuggestionsUpdater(prev, data) ==
  LET next == RemoveSuggestion(prev, data.userId)
      list == IF data.answerId \in DOMAIN next THEN next[data.answerId] ELSE <<>>
  IN [a \in DOMAIN next \cup {data.answerId} |->
        IF a = data.answerId
        THEN Append(list, [userId |-> data.userId, username |-> data.username])
        ELSE next[a]]

team_option_selected(data) ==
  /\ Received(data)
  /\ suggestions' = IF Falsy(data.teamId) \/ Falsy(data.answerId) \/ data.userId = 0
                    THEN suggestions
                    ELSE SuggestionsUpdater(suggestions, data)
  /\ UNCHANGED <<gameState, selectedAnswer, hasSubmitted, teamAnswer, memberAnswers,
                 connected, waitingForResults, correctAnswerId, showRoundFeedback,
                 lastRoundCorrect, renderThrows, hiddenByFinish>>

\* Mutant: the case without setHasSubmitted(true).
team_answer_finalized_NoSubmittedFlag(data) ==
  /\ Received(data)
  /\ IF data.hasFinalAnswer
     THEN /\ teamAnswer' = data.answerId
          /\ waitingForResults' = TRUE
     ELSE UNCHANGED <<teamAnswer, waitingForResults>>
  /\ UNCHANGED <<gameState, selectedAnswer, hasSubmitted, memberAnswers, connected,
                 suggestions, correctAnswerId, showRoundFeedback, lastRoundCorrect,
                 renderThrows, hiddenByFinish>>

\* data.finalAnswer.answerId throws on an event without finalAnswer, before any
\* setter has been called.
team_answer_finalized(data) ==
  /\ Received(data)
  /\ IF data.hasFinalAnswer
     THEN /\ teamAnswer' = data.answerId
          /\ hasSubmitted' = TRUE
          /\ waitingForResults' = TRUE
     ELSE UNCHANGED <<teamAnswer, hasSubmitted, waitingForResults>>
  /\ UNCHANGED <<gameState, selectedAnswer, memberAnswers, connected, suggestions,
                 correctAnswerId, showRoundFeedback, lastRoundCorrect, renderThrows,
                 hiddenByFinish>>

\* Mutant: data.correctAnswer?.id ?? null, which keeps an empty id.
CorrectId_Nullish(data) ==
  IF data.correctAnswer = None THEN Null ELSE Val(data.correctAnswer)

\* data.correctAnswer?.id || null
CorrectId(data) ==
  IF data.correctAnswer = None \/ Falsy(Val(data.correctAnswer)) THEN Null
  ELSE Val(data.correctAnswer)

\* gameStateRef.current.playerTeam?.id ||
\*   gameStateRef.current.teams?.find(team => team.members.some(...))?.id
ResolvedPlayerTeamId(ref) ==
  IF ~Falsy(IdOf(ref.playerTeam)) THEN IdOf(ref.playerTeam)
  ELSE IF ref.teams = None THEN Null
  ELSE IdOf(FindUserTeam(Val(ref.teams)))

\* !!data.teamResults?.find(r => r.teamId === resolvedPlayerTeamId)?.correct
RoundCorrect(data, resolvedPlayerTeamId) ==
  IF data.teamResults = None THEN FALSE
  ELSE LET playerTeamResult == FindByTeamId(Val(data.teamResults), resolvedPlayerTeamId)
       IN playerTeamResult # None /\ Val(playerTeamResult).correct

\* prev.teams.map(team => lb ? {...team, score: lb.score} : team)
MergeLeaderboard(teams, leaderboard) ==
  [i \in 1..Len(teams) |->
     LET lb == FindByTeamId(leaderboard, teams[i].id)
     IN IF lb # None THEN [teams[i] EXCEPT !.score = Val(lb).score] ELSE teams[i]]

\* The setGameState updater of 'team_battle_question_results'.
ResultsGameState(prev, data) ==
  LET updatedTeams ==
        IF prev.teams # None /\ data.leaderboard # None
        THEN Some(MergeLeaderboard(Val(prev.teams), Val(data.leaderboard)))
        ELSE prev.teams
      playerTeam ==
        IF updatedTeams = None THEN None ELSE FindUserTeam(Val(updatedTeams))
      opposingTeam ==
        IF updatedTeams = None THEN None
        ELSE FindOtherTeam(Val(updatedTeams), IdOf(playerTeam))
  IN [prev EXCEPT !.teams = updatedTeams,
                  !.playerTeam = IF playerTeam # None THEN playerTeam
                                 ELSE prev.playerTeam,
                  !.opposingTeam = IF opposingTeam # None THEN opposingTeam
                                   ELSE prev.opposingTeam]

\* data.leaderboard.find is not a function: the updater throws when React runs it,
\* which is in the render, outside handleMessage's try.
UpdaterThrows(prev, data) ==
  /\ data.shape = "leaderboard_not_array"
  /\ prev.teams # None
  /\ Len(Val(prev.teams)) > 0

\* data.teamResults.find is not a function: thrown after setWaitingForResults and
\* setCorrectAnswerId were called, caught by handleMessage.
team_battle_question_results(data) ==
  /\ Received(data)
  /\ waitingForResults' = FALSE
  /\ correctAnswerId' = CorrectId(data)
  /\ IF data.shape = "teamResults_not_array"
     THEN UNCHANGED <<lastRoundCorrect, gameState, renderThrows>>
     ELSE /\ lastRoundCorrect' =
               Some(RoundCorrect(data, ResolvedPlayerTeamId(gameStateRef)))
          /\ IF UpdaterThrows(gameState, data)
             THEN renderThrows' = TRUE /\ UNCHANGED gameState
             ELSE gameState' = ResultsGameState(gameState, data)
                  /\ UNCHANGED renderThrows
  /\ UNCHANGED <<selectedAnswer, hasSubmitted, teamAnswer, memberAnswers, connected,
                 suggestions, showRoundFeedback, hiddenByFinish>>

\* a ?? b
Coalesce(a, b) == IF a # None THEN a ELSE b

\* Mutant: the updater with `?? 0` alone, without the previous value.
FinishedGameState_ZeroFallback(prev, data) ==
  LET yourTeam == IF data.yourTeam = None
                  THEN YourTeam(None, None, None) ELSE Val(data.yourTeam)
  IN [prev EXCEPT
        !.phase = "finished",
        !.teams = data.finalScores,
        !.finalScore = Coalesce(yourTeam.score, Some(0)),
        !.correct = Coalesce(yourTeam.correctAnswers, Some(0)),
        !.incorrect = Coalesce(yourTeam.incorrectAnswers, Some(0))]

\* The setGameState updater of 'team_battle_finished' / 'team_battle_ended'.
FinishedGameState(prev, data) ==
  LET yourTeam == IF data.yourTeam = None
                  THEN YourTeam(None, None, None) ELSE Val(data.yourTeam)
  IN [prev EXCEPT
        !.phase = "finished",
        !.teams = data.finalScores,
        !.finalScore = Coalesce(yourTeam.score, Coalesce(prev.finalScore, Some(0))),
        !.correct = Coalesce(yourTeam.correctAnswers, Coalesce(prev.correct, Some(0))),
        !.incorrect =
           Coalesce(yourTeam.incorrectAnswers, Coalesce(prev.incorrect, Some(0)))]

\* Mutant: the case without setShowRoundFeedback(false).
team_battle_finished_KeepsFeedback(data) ==
  /\ Received(data)
  /\ gameState' = FinishedGameState(gameState, data)
  /\ hiddenByFinish' = TRUE
  /\ UNCHANGED <<local, renderThrows>>

team_battle_finished(data) ==
  /\ Received(data)
  /\ gameState' = FinishedGameState(gameState, data)
  /\ showRoundFeedback' = FALSE
  /\ hiddenByFinish' = TRUE
  /\ UNCHANGED <<selectedAnswer, hasSubmitted, teamAnswer, memberAnswers, connected,
                 suggestions, waitingForResults, correctAnswerId, lastRoundCorrect,
                 renderThrows>>

\* Mutant: the opponent taken to be the roster's first team.
updateTeamsData_FirstIsOpponent(prev, teams) ==
  LET playerTeam == FindUserTeam(teams)
  IN [prev EXCEPT !.teams = Some(teams),
                  !.playerTeam = playerTeam,
                  !.opposingTeam = Some(teams[1])]

updateTeamsData(prev, teams) ==
  LET playerTeam == FindUserTeam(teams)
      opposingTeam == FindOtherTeam(teams, IdOf(playerTeam))
  IN [prev EXCEPT !.teams = Some(teams),
                  !.playerTeam = playerTeam,
                  !.opposingTeam = opposingTeam]

\* `if (data.teams)`; a teams field that is no list makes teams.find throw in
\* updateTeamsData before setGameState is reached.
teams_updated(data) ==
  /\ Received(data)
  /\ gameState' = IF data.shape = "ok" /\ data.teams # None
                  THEN updateTeamsData(gameState, Val(data.teams))
                  ELSE gameState
  /\ UNCHANGED <<local, renderThrows, hiddenByFinish>>

----------------------------------------------------------------------------
(* React: a commit and its passive effects *)

\* The commit of a render of the state as it stands, followed by the two effects:
\* gameStateRef.current = gameState, and setShowRoundFeedback(true) when
\* lastRoundCorrect differs from its value at the previous commit and is not null.
\* `lrc` and `show` are lastRoundCorrect and showRoundFeedback going into the render.
\* A queued updater that throws takes the component tree down instead.
Commit(lrc, show) ==
  IF renderThrows
  THEN /\ stage' = "crashed"
       /\ showRoundFeedback' = show
       /\ UNCHANGED <<gameStateRef, depLastRoundCorrect, renderThrows, hiddenByFinish>>
  ELSE /\ gameStateRef' = gameState
       /\ depLastRoundCorrect' = lrc
       /\ IF lrc # depLastRoundCorrect /\ lrc # None
          THEN showRoundFeedback' = TRUE /\ hiddenByFinish' = FALSE
          ELSE showRoundFeedback' = show /\ UNCHANGED hiddenByFinish
       /\ UNCHANGED <<stage, renderThrows>>

\* React commits what the message handlers queued.
Render ==
  /\ stage = "listening"
  /\ gameStateRef # gameState \/ depLastRoundCorrect # lastRoundCorrect \/ renderThrows
  /\ Commit(lastRoundCorrect, showRoundFeedback)
  /\ emitted' = NoEvent
  /\ UNCHANGED <<gameState, selectedAnswer, hasSubmitted, teamAnswer, memberAnswers,
                 connected, suggestions, waitingForResults, correctAnswerId,
                 lastRoundCorrect, mount, display, lastEvent, nEvents>>

\* showFeedbackModal of the render of the state as it stands.
showFeedbackModal ==
  /\ showRoundFeedback
  /\ gameState.currentQuestion # Null
  /\ correctAnswerId # Null
  /\ lastRoundCorrect # None

\* renderQuestionPhase of the render of the state as it stands: null without a
\* current question or a player team, the question board otherwise.
renderQuestionPhase ==
  IF gameState.currentQuestion = Null \/ gameState.playerTeam = None
  THEN "null"
  ELSE "board"

\* Whether that render has the question board: {phase === 'question' &&
\* renderQuestionPhase()}.
questionBoard == gameState.phase = "question" /\ renderQuestionPhase # "null"

\* Whether that render has the "Waiting for Opponent" card, which is part of what
\* renderQuestionPhase returns: {waitingForResults && (...)}.
waitingOverlay == questionBoard /\ waitingForResults

----------------------------------------------------------------------------
(* The user's handlers.  They are closures of the last render: the gameState *)
(* they read is the one that render committed, which is what gameStateRef    *)
(* holds.  React commits their state updates before the browser handles the  *)
(* next event.                                                               *)

UserEvent(event) ==
  /\ stage = "listening"
  /\ nEvents < MaxEvents
  /\ lastEvent' = event
  /\ nEvents' = nEvents + 1
  /\ UNCHANGED <<mount, display>>

isTeamCaptain(state) ==
  state.playerTeam # None /\ Val(state.playerTeam).captainId = Me

\* Mutant: the handler with setTeamAnswer(answerId) added, locking the question.
handleMemberSelect_LocksQuestion(answerId) ==
  /\ UserEvent([type |-> "handleMemberSelect", answerId |-> answerId])
  /\ IF gameStateRef.currentQuestion = Null \/ gameStateRef.playerTeam = None
        \/ user = None
     THEN /\ emitted' = NoEvent
          /\ UNCHANGED <<selectedAnswer, teamAnswer, showRoundFeedback, react>>
     ELSE /\ emitted' = [type |-> "team_option_selected",
                         teamId |-> Val(gameStateRef.playerTeam).id,
                         questionId |-> gameStateRef.currentQuestion,
                         answerId |-> answerId,
                         userId |-> Me,
                         username |-> Username(Me)]
          /\ selectedAnswer' = answerId
          /\ teamAnswer' = answerId
          /\ Commit(lastRoundCorrect, showRoundFeedback)
  /\ UNCHANGED <<gameState, hasSubmitted, memberAnswers, connected,
                 suggestions, waitingForResults, correctAnswerId, lastRoundCorrect>>

handleMemberSelect(answerId) ==
  /\ UserEvent([type |-> "handleMemberSelect", answerId |-> answerId])
  /\ IF gameStateRef.currentQuestion = Null \/ gameStateRef.playerTeam = None
        \/ user = None
     THEN /\ emitted' = NoEvent
          /\ UNCHANGED <<selectedAnswer, showRoundFeedback, react>>
     ELSE /\ emitted' = [type |-> "team_option_selected",
                         teamId |-> Val(gameStateRef.playerTeam).id,
                         questionId |-> gameStateRef.currentQuestion,
                         answerId |-> answerId,
                         userId |-> Me,
                         username |-> Username(Me)]
          /\ selectedAnswer' = answerId
          /\ Commit(lastRoundCorrect, showRoundFeedback)
  /\ UNCHANGED <<gameState, hasSubmitted, teamAnswer, memberAnswers, connected,
                 suggestions, waitingForResults, correctAnswerId, lastRoundCorrect>>

\* Mutant: the handler without the isTeamCaptain check.
handleCaptainSubmit_NoCaptainCheck(answerId) ==
  /\ UserEvent([type |-> "handleCaptainSubmit", answerId |-> answerId])
  /\ emitted' =
       IF gameStateRef.currentQuestion = Null \/ gameStateRef.playerTeam = None
       THEN NoEvent
       ELSE [type |-> "finalize_team_answer",
             teamId |-> Val(gameStateRef.playerTeam).id,
             questionId |-> gameStateRef.currentQuestion,
             answerId |-> answerId]
  /\ UNCHANGED <<gameState, local, react>>

handleCaptainSubmit(answerId) ==
  /\ UserEvent([type |-> "handleCaptainSubmit", answerId |-> answerId])
  /\ emitted' =
       IF gameStateRef.currentQuestion = Null \/ gameStateRef.playerTeam = None
       THEN NoEvent
       ELSE IF ~isTeamCaptain(gameStateRef) THEN NoEvent
       ELSE [type |-> "finalize_team_answer",
             teamId |-> Val(gameStateRef.playerTeam).id,
             questionId |-> gameStateRef.currentQuestion,
             answerId |-> answerId]
  /\ UNCHANGED <<gameState, local, react>>

\* Mutant: onClose without setCorrectAnswerId(null).
onClose_KeepsCorrectAnswerId ==
  /\ showFeedbackModal
  /\ UserEvent([type |-> "onClose"])
  /\ emitted' = NoEvent
  /\ lastRoundCorrect' = None
  /\ Commit(None, FALSE)
  /\ UNCHANGED <<gameState, selectedAnswer, hasSubmitted, teamAnswer, memberAnswers,
                 connected, suggestions, waitingForResults, correctAnswerId>>

\* onClose of the FeedbackModal, which is on screen while showFeedbackModal holds.
onClose ==
  /\ showFeedbackModal
  /\ UserEvent([type |-> "onClose"])
  /\ emitted' = NoEvent
  /\ lastRoundCorrect' = None
  /\ correctAnswerId' = Null
  /\ Commit(None, FALSE)
  /\ UNCHANGED <<gameState, selectedAnswer, hasSubmitted, teamAnswer, memberAnswers,
                 connected, suggestions, waitingForResults>>

----------------------------------------------------------------------------

Next ==
  \/ Mount
  \/ unparseable
  \/ connection_established
  \/ \E type \in NotificationTypes : notification(type)
  \/ \E i \in DOMAIN GameStateMsgs : game_state_update(GameStateMsgs[i])
  \/ team_battle_started
  \/ \E data \in QuestionMsgs : team_battle_question(data)
  \/ \E data \in SubmittedMsgs : team_answer_submitted(data)
  \/ \E data \in OptionMsgs : team_option_selected(data)
  \/ \E data \in FinalizedMsgs : team_answer_finalized(data)
  \/ \E data \in ResultsMsgs : team_battle_question_results(data)
  \/ \E data \in FinishedMsgs : team_battle_finished(data)
  \/ \E data \in TeamsMsgs : teams_updated(data)
  \/ Render
  \/ \E answerId \in AnswerIds : handleMemberSelect(answerId)
  \/ \E answerId \in AnswerIds : handleCaptainSubmit(answerId)
  \/ onClose

Spec == Init /\ [][Next]_vars

----------------------------------------------------------------------------
(* TeamDisplay *)

\* Ids a team's captainId and the viewer's currentUserId range over.
DisplayIds == 0..2

\* The props of a render: team reduced to captainId; currentUserId, isUserTeam and
\* isReady are optional; onReady says whether a handler is given.
TeamDisplayProps ==
  [captainId : DisplayIds,
   currentUserId : {None} \cup {Some(n) : n \in DisplayIds},
   onReady : BOOLEAN,
   isUserTeam : {None, Some(FALSE), Some(TRUE)},
   isReady : {None, Some(FALSE), Some(TRUE)}]

\* currentUserId ? team.captainId === currentUserId : false
isCaptain(p) ==
  IF p.currentUserId # None /\ Val(p.currentUserId) # 0
  THEN p.captainId = Val(p.currentUserId)
  ELSE FALSE

\* Mutant: Boolean(onReady && isCaptain), without isUserTeam.
canReady_AnyTeam(p) == p.onReady /\ isCaptain(p)

\* Boolean(onReady && isUserTeam && isCaptain)
canReady(p) == p.onReady /\ p.isUserTeam = Some(TRUE) /\ isCaptain(p)

\* One render of TeamDisplay with props p: {canReady && <Button ...>}.
TeamDisplay(p) ==
  /\ props' = Some(p)
  /\ readyShown' = Some(canReady(p))
  /\ UNCHANGED <<gameState, local, react, mount, lastEvent, emitted, nEvents>>

TeamDisplayNext == \E p \in TeamDisplayProps : TeamDisplay(p)

TeamDisplaySpec == Init /\ [][TeamDisplayNext]_vars

----------------------------------------------------------------------------
(* Properties *)

\* The state on screen is the state as it stands: the last commit rendered it and
\* its effects have run.
Settled ==
  /\ stage = "listening"
  /\ gameStateRef = gameState
  /\ depLastRoundCorrect = lastRoundCorrect
  /\ ~renderThrows

\* The places (answer id, index) where a user id is listed in the suggestions map.
Listings(userId) ==
  {<<a, i>> \in UNION {{a} \X (1..Len(suggestions[a])) : a \in DOMAIN suggestions} :
     suggestions[a][i].userId = userId}

\* C1: in every reachable state each member's userId is listed in the suggestions
\* map under at most one answer id, and at most once in that answer's list.
C1_OneSuggestionPerMember ==
  \A userId \in 0..3 : Cardinality(Listings(userId)) <= 1

\* C1 witness: after three events, the last a team_option_selected, two answers
\* carry a suggestion each.
C1_Witness ==
  /\ lastEvent.type = "team_option_selected"
  /\ nEvents = 3
  /\ Cardinality(DOMAIN suggestions) = 2

\* C2: after team_battle_question, from any prior state, phase = question and the
\* submission, suggestion and reveal state is empty.
C2_QuestionResets ==
  lastEvent.type = "team_battle_question" =>
    /\ gameState.phase = "question"
    /\ selectedAnswer = Null
    /\ hasSubmitted = FALSE
    /\ teamAnswer = Null
    /\ DOMAIN memberAnswers = {}
    /\ DOMAIN suggestions = {}
    /\ waitingForResults = FALSE
    /\ correctAnswerId = Null
    /\ lastRoundCorrect = None

\* C2 witness: a question received after an earlier round's result was on screen.
C2_Witness ==
  /\ lastEvent.type = "team_battle_question"
  /\ showRoundFeedback
  /\ nEvents = 3

\* A round has been resolved and not dismissed since: onClose clears both fields.
RoundResolved == correctAnswerId # Null /\ lastRoundCorrect # None

\* C3 as stated, read on screen and with a question loaded: the feedback overlay is
\* visible if and only if a round has been resolved and the user has not dismissed
\* the overlay since.
C3_OverlayIffResolved ==
  (Settled /\ gameState.currentQuestion # Null) =>
    (showFeedbackModal <=> RoundResolved)

\* C3 amended: on screen, the feedback overlay is visible if and only if a question
\* is loaded, a round has been resolved and not dismissed since, and no
\* team_battle_finished / team_battle_ended has arrived since the overlay was last
\* triggered.
C3_OverlayIffResolvedAndNotHidden ==
  Settled =>
    (showFeedbackModal <=>
       /\ RoundResolved
       /\ gameState.currentQuestion # Null
       /\ ~hiddenByFinish)

\* C3 witness: the overlay on screen after the results of a loaded question.
C3_Witness ==
  /\ Settled
  /\ showFeedbackModal
  /\ lastEvent.type = "team_battle_question_results"

\* C4: onClose sets showRoundFeedback = false, lastRoundCorrect = null and
\* correctAnswerId = null in one step and changes no other local state.
C4_CloseClearsOnlyFeedback ==
  [][(nEvents' = nEvents + 1 /\ lastEvent'.type = "onClose") =>
       /\ showRoundFeedback' = FALSE
       /\ lastRoundCorrect' = None
       /\ correctAnswerId' = Null
       /\ UNCHANGED <<gameState, selectedAnswer, hasSubmitted, teamAnswer,
                      memberAnswers, connected, suggestions, waitingForResults>>]_vars

\* C4 witness: the overlay has just been dismissed.
C4_Witness ==
  /\ lastEvent.type = "onClose"
  /\ ~showRoundFeedback
  /\ gameState.phase = "question"

\* The id the results event carries: Null when it has no correctAnswer object.
CarriedId(data) == IF data.correctAnswer = None THEN Null ELSE Val(data.correctAnswer)

\* C5 as stated: after team_battle_question_results, correctAnswerId is exactly the
\* id the event carries, whatever its value, and null only when it carries none.
C5_ExactlyTheCarriedId ==
  lastEvent.type = "team_battle_question_results" =>
    correctAnswerId = CarriedId(lastEvent)

\* C5 amended: after team_battle_question_results, correctAnswerId is the id the
\* event carries when that id is a non-empty string, and null when the event
\* carries no correctAnswer id or an empty one.
C5_TheCarriedIdUnlessEmpty ==
  lastEvent.type = "team_battle_question_results" =>
    /\ CarriedId(lastEvent) \notin {Null, ""} => correctAnswerId = CarriedId(lastEvent)
    /\ CarriedId(lastEvent) \in {Null, ""} => correctAnswerId = Null

\* C5 witness: results carrying id a2, received after the overlay of an earlier
\* round was triggered, have set correctAnswerId.
C5_Witness ==
  /\ lastEvent.type = "team_battle_question_results"
  /\ correctAnswerId = "a2"
  /\ showRoundFeedback

\* The teams of a roster that list the user.
TeamsOfUser(roster) == {i \in 1..Len(roster) : HasMember(roster[i], Me)}

\* C6: after teams_updated / team_update with a roster of at least two teams,
\* playerTeam is the team of the roster that lists the user (none when no team
\* lists the user) and opposingTeam is a team of the roster with another id than
\* playerTeam's.
C6_PlayerAndOpponentResolved ==
  (/\ lastEvent.type \in {"teams_updated", "team_update"}
   /\ lastEvent.shape = "ok"
   /\ lastEvent.teams # None
   /\ Len(Val(lastEvent.teams)) >= 2) =>
    LET roster == Val(lastEvent.teams)
    IN /\ IF TeamsOfUser(roster) = {} THEN gameState.playerTeam = None
          ELSE /\ gameState.playerTeam # None
               /\ \E i \in TeamsOfUser(roster) : Val(gameState.playerTeam) = roster[i]
       /\ gameState.opposingTeam # None
       /\ \E i \in 1..Len(roster) : Val(gameState.opposingTeam) = roster[i]
       /\ Val(gameState.opposingTeam).id # IdOf(gameState.playerTeam)

\* C6 witness: a roster that lists the user's team second has been resolved.
C6_Witness ==
  /\ lastEvent.type = "team_update"
  /\ lastEvent.teams = Some(<<T2, T1m>>)
  /\ gameState.playerTeam = Some(T1m)
  /\ gameState.opposingTeam = Some(T2)

\* An event that is malformed for its type.
Malformed(data) ==
  \/ data.type = "unparseable"
  \/ data.type = "team_answer_finalized" /\ ~data.hasFinalAnswer
  \/ data.type = "team_battle_question_results" /\ data.shape # "ok"
  \/ data.type \in {"teams_updated", "team_update"} /\ data.shape # "ok"

\* C7: a malformed inbound message leaves every local state variable as it was,
\* and the view does not crash.
C7_MalformedLeavesStateUnchanged ==
  [][/\ (nEvents' = nEvents + 1 /\ Malformed(lastEvent')) =>
          UNCHANGED <<gameState, local>>
     /\ stage' # "crashed"]_vars

\* C8: the handler of an event reads local game state that holds every earlier
\* event's update: when team_battle_question_results is handled, the
\* gameStateRef.current it reads is the game state as it stands.
C8_HandlerReadsCurrentState ==
  [][(nEvents' = nEvents + 1 /\ lastEvent'.type = "team_battle_question_results") =>
       gameStateRef = gameState]_vars

\* Every score the server sends in a roster, a leaderboard or a final tally.
ServerScores == {1, 2}

\* The teamResults entries the last results event carries for the team that lists
\* the user.
EntriesForPlayerTeam ==
  IF lastEvent.teamResults = None \/ gameState.teams = None THEN {}
  ELSE {i \in 1..Len(Val(lastEvent.teamResults)) :
          \E j \in TeamsOfUser(Val(gameState.teams)) :
            Val(lastEvent.teamResults)[i].teamId = Val(gameState.teams)[j].id}

\* C9: a verdict or score held in client state is a value the server sent: after
\* results, lastRoundCorrect is the `correct` flag of a teamResults entry for the
\* player's team, and finalScore and every team score is a score the server sent.
C9_OnlyServerValues ==
  /\ (lastEvent.type = "team_battle_question_results" /\ lastEvent.shape = "ok"
      /\ lastRoundCorrect # None) =>
       \E i \in EntriesForPlayerTeam :
         Val(lastRoundCorrect) = Val(lastEvent.teamResults)[i].correct
  /\ gameState.finalScore # None => Val(gameState.finalScore) \in ServerScores
  /\ gameState.teams # None =>
       \A i \in 1..Len(Val(gameState.teams)) :
         Val(gameState.teams)[i].score \in ServerScores

\* C10: finalize_team_answer is emitted only by handleCaptainSubmit, only when the
\* gameState it reads has a current question and a player team whose captainId is
\* the user's id, and it carries that team's id, that question's id and the chosen
\* answer id.
C10_OnlyCaptainFinalizes ==
  emitted.type = "finalize_team_answer" =>
    /\ lastEvent.type = "handleCaptainSubmit"
    /\ gameStateRef.currentQuestion # Null
    /\ gameStateRef.playerTeam # None
    /\ Val(gameStateRef.playerTeam).captainId = Me
    /\ emitted.teamId = Val(gameStateRef.playerTeam).id
    /\ emitted.questionId = gameStateRef.currentQuestion
    /\ emitted.answerId = lastEvent.answerId

\* C10 witness: the captain has finalized answer a2.
C10_Witness ==
  /\ emitted.type = "finalize_team_answer"
  /\ emitted.answerId = "a2"

\* The step handles an event of type `type`.
Handles(type) == nEvents' = nEvents + 1 /\ lastEvent'.type = type

\* The question is locked: an answer has been finalized since the last question.
Locked == hasSubmitted /\ teamAnswer # Null

\* C11 as stated: team_answer_finalized with finalAnswer.answerId = x sets
\* teamAnswer = x, hasSubmitted = true and waitingForResults = true, and from then
\* on teamAnswer and hasSubmitted keep these values until the next
\* team_battle_question.
C11_LockedOnTheFirstAnswer ==
  [][/\ (Handles("team_answer_finalized") /\ lastEvent'.hasFinalAnswer) =>
          /\ teamAnswer' = lastEvent'.answerId
          /\ hasSubmitted'
          /\ waitingForResults'
     /\ (Locked /\ ~Handles("team_battle_question")) =>
          /\ hasSubmitted'
          /\ teamAnswer' = teamAnswer]_vars

\* C11 amended: team_answer_finalized with finalAnswer.answerId = x sets
\* teamAnswer = x, hasSubmitted = true and waitingForResults = true, and the
\* question then stays locked until the next team_battle_question: hasSubmitted
\* stays true and teamAnswer keeps its value, except that a further
\* team_answer_finalized replaces teamAnswer by the answer it carries.
C11_LockedOnTheLatestAnswer ==
  [][/\ (Handles("team_answer_finalized") /\ lastEvent'.hasFinalAnswer) =>
          /\ teamAnswer' = lastEvent'.answerId
          /\ hasSubmitted'
          /\ waitingForResults'
     /\ (Locked /\ ~Handles("team_battle_question")) =>
          /\ hasSubmitted'
          /\ teamAnswer' # Null
          /\ \/ teamAnswer' = teamAnswer
             \/ /\ Handles("team_answer_finalized")
                /\ lastEvent'.hasFinalAnswer
                /\ teamAnswer' = lastEvent'.answerId]_vars

\* C11 witness: the lock on answer a2 outlived the round's results and a malformed
\* team_answer_finalized.
C11_Witness ==
  /\ Locked
  /\ teamAnswer = "a2"
  /\ lastEvent.type = "team_answer_finalized"
  /\ ~lastEvent.hasFinalAnswer
  /\ correctAnswerId # Null

\* The entries of answer `a` in a suggestions map that belong to other users than
\* `userId`, in order.
OthersUnder(map, a, userId) ==
  IF a \in DOMAIN map THEN SelectSeq(map[a], LAMBDA s : s.userId # userId) ELSE <<>>

\* A team_option_selected event the handler does not drop.
ValidOption(data) ==
  data.teamId \notin {Null, ""} /\ data.answerId \notin {Null, ""} /\ data.userId # 0

\* C12: after a valid team_option_selected for member u and answer a, u is listed
\* once, as the last entry under a, and under no other answer; the entries of every
\* other member are as they were; the game state (phase included) is unchanged; and
\* when the event directly follows team_battle_question the map is exactly {a: [u]}
\* and the phase is question.
C12_OptionMovesOneSuggestion ==
  [][(Handles("team_option_selected") /\ ValidOption(lastEvent')) =>
       LET u == lastEvent'.userId
           a == lastEvent'.answerId
           entry == [userId |-> u, username |-> lastEvent'.username]
       IN /\ a \in DOMAIN suggestions'
          /\ suggestions'[a][Len(suggestions'[a])] = entry
          /\ \A b \in DOMAIN suggestions' :
               \A i \in 1..Len(suggestions'[b]) :
                 suggestions'[b][i].userId = u => (b = a /\ i = Len(suggestions'[a]))
          /\ \A b \in AnswerIds :
               OthersUnder(suggestions', b, u) = OthersUnder(suggestions, b, u)
          /\ gameState' = gameState
          /\ lastEvent.type = "team_battle_question" =>
               /\ suggestions' = (a :> <<entry>>)
               /\ gameState'.phase = "question"]_vars

\* C12 witness: user 1 moved the suggestion from a1 to a2, where user 2 was listed.
C12_Witness ==
  /\ lastEvent.type = "team_option_selected"
  /\ nEvents = 3
  /\ suggestions = ("a2" :> <<[userId |-> 2, username |-> "u2"],
                             [userId |-> 1, username |-> "u1"]>>)

\* C13: handleMemberSelect, when the gameState it reads has a current question and
\* a player team (the user is signed in), passes exactly one team_option_selected
\* with the team, question, answer and user identifiers to sendGameEvent and
\* changes selectedAnswer only; otherwise it sends nothing and changes nothing.
C13_MemberSelectIsAdvisory ==
  [][Handles("handleMemberSelect") =>
       /\ UNCHANGED <<gameState, hasSubmitted, teamAnswer, memberAnswers, connected,
                      suggestions, waitingForResults, correctAnswerId,
                      lastRoundCorrect>>
       /\ IF gameStateRef.currentQuestion # Null /\ gameStateRef.playerTeam # None
          THEN /\ emitted' = [type |-> "team_option_selected",
                              teamId |-> Val(gameStateRef.playerTeam).id,
                              questionId |-> gameStateRef.currentQuestion,
                              answerId |-> lastEvent'.answerId,
                              userId |-> Me,
                              username |-> Username(Me)]
               /\ selectedAnswer' = lastEvent'.answerId
          ELSE /\ emitted' = NoEvent
               /\ UNCHANGED local]_vars

\* C13 witness: a member selected a2 on a locked question.
C13_Witness ==
  /\ lastEvent.type = "handleMemberSelect"
  /\ emitted.type = "team_option_selected"
  /\ selectedAnswer = "a2"
  /\ teamAnswer = "a1"

\* C14 as stated: TeamDisplay shows the Ready action exactly when an onReady
\* handler is given, the displayed team is the viewer's own (isUserTeam) and
\* team.captainId equals currentUserId, for every combination of props.
C14_ReadyIffCaptainOfOwnTeam ==
  props # None =>
    (Val(readyShown) <=>
       /\ Val(props).onReady
       /\ Val(props).isUserTeam = Some(TRUE)
       /\ Val(props).currentUserId = Some(Val(props).captainId))

\* C14 amended: TeamDisplay shows the Ready action exactly when an onReady handler
\* is given, isUserTeam is true, and currentUserId is given, is not 0 and equals
\* team.captainId.
C14_ReadyIffNonZeroCaptainOfOwnTeam ==
  props # None =>
    (Val(readyShown) <=>
       /\ Val(props).onReady
       /\ Val(props).isUserTeam = Some(TRUE)
       /\ Val(props).currentUserId = Some(Val(props).captainId)
       /\ Val(props).captainId # 0)

\* C14 witness: the captain of the displayed own team sees the Ready action.
C14_Witness ==
  /\ props # None
  /\ Val(props).captainId = 2
  /\ Val(props).currentUserId = Some(2)
  /\ Val(props).isUserTeam = Some(TRUE)
  /\ readyShown = Some(TRUE)

\* The session id of the URL: parameter `session`, gameSessionId when there is no
\* `session` parameter.
SessionIdOfUrl ==
  IF search.session # Null THEN search.session ELSE search.gameSessionId

\* Every local state variable has the value the component was constructed with.
Untouched ==
  /\ gameState = InitialGameState
  /\ selectedAnswer = Null /\ hasSubmitted = FALSE /\ teamAnswer = Null
  /\ DOMAIN memberAnswers = {} /\ connected = FALSE /\ DOMAIN suggestions = {}
  /\ waitingForResults = FALSE /\ correctAnswerId = Null
  /\ showRoundFeedback = FALSE /\ lastRoundCorrect = None

\* C15: mounted without a user or without a (non-empty) session id, the component
\* redirects to '/', opens no socket, sends no get_game_state and registers no
\* handler, so no event is handled and local state stays as constructed; mounted
\* with both, it has sent get_game_state with that session id and the user's id
\* before any inbound event is handled.
C15_MountGuard ==
  /\ (user = None \/ SessionIdOfUrl \in {Null, ""}) =>
       /\ stage \in {"mounting", "redirected"}
       /\ socket = None
       /\ requested = NoEvent
       /\ emitted = NoEvent
       /\ nEvents = 0
       /\ Untouched
       /\ stage = "redirected" => location = "/"
  /\ (user # None /\ SessionIdOfUrl \notin {Null, ""}) =>
       /\ stage # "redirected"
       /\ location = Null
       /\ (stage # "mounting" \/ nEvents > 0) =>
            /\ requested = [type |-> "get_game_state",
                            gameSessionId |-> SessionIdOfUrl, userId |-> Val(user)]
            /\ socket = Some(Val(user))
       /\ stage = "mounting" => (nEvents = 0 /\ Untouched)

\* C15 witness: a signed-in user opened the page with an empty session parameter
\* and was redirected.
C15_Witness ==
  /\ stage = "redirected"
  /\ user # None
  /\ search.session = ""
  /\ location = "/"

\* The ids of the teams the game state holds (roster and playerTeam) that list the
\* user as a member.
UserTeamIds(state) ==
  {Val(state.teams)[i].id :
     i \in IF state.teams = None THEN {} ELSE TeamsOfUser(Val(state.teams))}
  \cup {Val(state.playerTeam).id :
          x \in IF state.playerTeam # None /\ HasMember(Val(state.playerTeam), Me)
                THEN {1} ELSE {}}

\* C16: when team_battle_question_results is handled, lastRoundCorrect becomes the
\* `correct` flag of the teamResults entry whose teamId is the id of the team that
\* lists the user in the game state the earlier events established, however
\* closely those events precede the results.
C16_VerdictOfTheUsersTeam ==
  [][(/\ Handles("team_battle_question_results")
      /\ lastEvent'.shape = "ok"
      /\ lastEvent'.teamResults # None) =>
       \A id \in UserTeamIds(gameState) :
         \A i \in 1..Len(Val(lastEvent'.teamResults)) :
           Val(lastEvent'.teamResults)[i].teamId = id =>
             lastRoundCorrect' = Some(Val(lastEvent'.teamResults)[i].correct)]_vars

\* The score the leaderboard gives team id `id`, `before` when it has no entry.
ScoreBy(leaderboard, id, before) ==
  LET hits == {i \in 1..Len(leaderboard) : leaderboard[i].teamId = id}
  IN IF hits = {} THEN before
     ELSE leaderboard[CHOOSE i \in hits : \A j \in hits : i <= j].score

\* C17: after team_battle_question_results carrying a leaderboard, every team of the
\* roster has the score of its leaderboard entry, or its previous score when it has
\* none, and playerTeam and opposingTeam have the scores of the leaderboard entries
\* for their team ids.
C17_LeaderboardScoresEverywhere ==
  [][(/\ Handles("team_battle_question_results")
      /\ lastEvent'.shape = "ok"
      /\ lastEvent'.leaderboard # None) =>
       LET lb == Val(lastEvent'.leaderboard)
       IN /\ gameState.teams # None =>
               /\ gameState'.teams # None
               /\ Len(Val(gameState'.teams)) = Len(Val(gameState.teams))
               /\ \A i \in 1..Len(Val(gameState.teams)) :
                    Val(gameState'.teams)[i].score =
                      ScoreBy(lb, Val(gameState.teams)[i].id,
                              Val(gameState.teams)[i].score)
          /\ gameState'.playerTeam # None =>
               Val(gameState'.playerTeam).score =
                 ScoreBy(lb, Val(gameState'.playerTeam).id,
                         Val(gameState'.playerTeam).score)
          /\ gameState'.opposingTeam # None =>
               Val(gameState'.opposingTeam).score =
                 ScoreBy(lb, Val(gameState'.opposingTeam).id,
                         Val(gameState'.opposingTeam).score)]_vars

\* C18: game_state_update merges the event into the game state: a field the event's
\* gameState, playerTeam or opposingTeam supplies takes that value, and every field
\* the event does not supply, playerTeam and opposingTeam included, keeps its value.
C18_UpdateMergesAndKeeps ==
  [][Handles("game_state_update") =>
       \A f \in DOMAIN gameState :
         gameState'[f] =
           IF f = "playerTeam" /\ lastEvent'.playerTeam # None
             THEN lastEvent'.playerTeam
           ELSE IF f = "opposingTeam" /\ lastEvent'.opposingTeam # None
             THEN lastEvent'.opposingTeam
           ELSE IF f \notin {"playerTeam", "opposingTeam"}
                   /\ f \in DOMAIN lastEvent'.gameState
             THEN lastEvent'.gameState[f]
           ELSE gameState[f]]_vars

\* The value of a final tally: the one yourTeam supplies, else the previous one,
\* else 0.
Tally(data, field, previous) ==
  IF data.yourTeam # None /\ Val(data.yourTeam)[field] # None
  THEN Val(data.yourTeam)[field]
  ELSE IF previous # None THEN previous ELSE Some(0)

\* C19: team_battle_finished and team_battle_ended have the same effect, which
\* depends on the prior state and the payload only: phase = finished, teams = the
\* event's finalScores, finalScore / correct / incorrect = yourTeam's score /
\* correctAnswers / incorrectAnswers, falling back to the previous value and then
\* to 0, showRoundFeedback = false, and nothing else changes.
C19_FinishedAndEndedAlike ==
  [][(Handles("team_battle_finished") \/ Handles("team_battle_ended")) =>
       /\ gameState' =
            [gameState EXCEPT
               !.phase = "finished",
               !.teams = lastEvent'.finalScores,
               !.finalScore = Tally(lastEvent', "score", gameState.finalScore),
               !.correct = Tally(lastEvent', "correctAnswers", gameState.correct),
               !.incorrect =
                  Tally(lastEvent', "incorrectAnswers", gameState.incorrect)]
       /\ showRoundFeedback' = FALSE
       /\ UNCHANGED <<selectedAnswer, hasSubmitted, teamAnswer, memberAnswers,
                      connected, suggestions, waitingForResults, correctAnswerId,
                      lastRoundCorrect>>]_vars

\* C19 witness: team_battle_ended without tallies, received after an event that
\* carried them, kept the earlier final score.
C19_Witness ==
  /\ lastEvent.type = "team_battle_ended"
  /\ lastEvent.yourTeam = Some(YourTeam(None, None, None))
  /\ gameState.phase = "finished"
  /\ gameState.finalScore = Some(2)
  /\ gameState.teams = Some(<<T2, T1m>>)

\* C20: the finished phase is terminal: no step changes phase from finished to
\* another value.
C20_FinishedIsTerminal ==
  [][gameState.phase = "finished" => gameState'.phase = "finished"]_vars

\* C21: in every state on screen with phase = question the question board is
\* rendered (renderQuestionPhase does not return null), whatever order the question
\* and team events arrived in.
C21_BoardInQuestionPhase ==
  (Settled /\ gameState.phase = "question") => renderQuestionPhase # "null"

\* waitingForResults is true from a team_answer_finalized (carrying a finalAnswer)
\* until the next team_battle_question_results or team_battle_question, and false
\* in every other reachable state.
WaitingFromFinalizedUntilResults ==
  /\ [](nEvents = 0 => ~waitingForResults)
  /\ [][/\ (Handles("team_answer_finalized") /\ lastEvent'.hasFinalAnswer) =>
             waitingForResults'
        /\ (Handles("team_battle_question_results")
            \/ Handles("team_battle_question")) => ~waitingForResults'
        /\ ~(\/ Handles("team_answer_finalized") /\ lastEvent'.hasFinalAnswer
             \/ Handles("team_battle_question_results")
             \/ Handles("team_battle_question")) =>
             waitingForResults' = waitingForResults]_vars

\* C22: on screen in phase question, the waiting-for-opponent overlay is shown
\* exactly while the team's answer has been finalized and the results have not
\* been received, where waitingForResults is true from team_answer_finalized until
\* the next team_battle_question_results or team_battle_question and false in every
\* other reachable state.
C22_OverlayWhileResultsPending ==
  /\ WaitingFromFinalizedUntilResults
  /\ []((Settled /\ gameState.phase = "question") =>
          (waitingOverlay <=> waitingForResults))

\* C23 as stated: after team_battle_question every per-round value is cleared, the
\* reveal trigger included: showRoundFeedback is false.
C23_QuestionClearsRevealTrigger ==
  lastEvent.type = "team_battle_question" => showRoundFeedback = FALSE

\* C23 amended: team_battle_question clears the selection, the submission flag, the
\* team answer, the member answers, the suggestions, waitingForResults,
\* correctAnswerId and lastRoundCorrect, and leaves showRoundFeedback as it was;
\* the feedback overlay is hidden after the event all the same, and a render that
\* follows does not change showRoundFeedback.
C23_QuestionKeepsRevealTrigger ==
  [][/\ Handles("team_battle_question") =>
          /\ showRoundFeedback' = showRoundFeedback
          /\ selectedAnswer' = Null /\ hasSubmitted' = FALSE /\ teamAnswer' = Null
          /\ DOMAIN memberAnswers' = {} /\ DOMAIN suggestions' = {}
          /\ waitingForResults' = FALSE
          /\ correctAnswerId' = Null /\ lastRoundCorrect' = None
          /\ ~showFeedbackModal'
     /\ (lastEvent.type = "team_battle_question" /\ nEvents' = nEvents) =>
          /\ showRoundFeedback' = showRoundFeedback
          /\ ~showFeedbackModal']_vars

\* C23 witness: question q2, received while the result of the earlier round was on
\* screen, is on screen with showRoundFeedback still true and the overlay hidden.
C23_Witness ==
  /\ Settled
  /\ lastEvent.type = "team_battle_question"
  /\ gameState.currentQuestion = "q2"
  /\ showRoundFeedback
  /\ ~showFeedbackModal

====
